---- MODULE Spec2Model ----
(***************************************************************************)
(* openTrackers: the REST pipeline of main.py (WordPressAPI, RedditAPI,    *)
(* DataManager, TrackerMonitor) and the HTML scraper of scraper.py.        *)
(*                                                                         *)
(* Strings are sequences of symbols.  The phrase                           *)
(* "is Open for Limited Signup!" is written with the two symbols "O" "!",  *)
(* so that a title can hold a part of it, the whole of it, or the whole of *)
(* it after a space (what str.replace looks for).  "&nbsp;" is an HTML     *)
(* entity, which html.unescape turns into the no-break space "nbsp".       *)
(* TrackerData's description and url are copied from the post and read by  *)
(* no condition of the program; they are left out of the records.          *)
(***************************************************************************)
EXTENDS Integers, Sequences, FiniteSets, TLC

VARIABLES
    post, source, tracker,                      \* one _parse_post call
    pc, wpResp, redditResp,                     \* TrackerMonitor.run
    wordpress_trackers, reddit_trackers, trackers,
    console, tableRows, reportRows, invoked, completed,
    pending, escaped, closed, written,
    now, storage,                               \* the clock and the data directory
    lastSave,                                   \* the last DataManager.save call
    spc, attempts, sleeps, got, html,           \* TrackerScraper
    post_containers, strategy, tried

parseVars == <<post, source, tracker>>
runVars == <<pc, wpResp, redditResp, wordpress_trackers, reddit_trackers, trackers,
             console, tableRows, reportRows, invoked, completed,
             pending, escaped, closed, written>>
diskVars == <<now, storage>>
saveVars == <<lastSave>>
scraperVars == <<spc, attempts, sleeps, got, html, post_containers, strategy, tried>>
vars == <<parseVars, runVars, diskVars, saveVars, scraperVars>>

----------------------------------------------------------------------------
(* Bounds *)

MaxTitleLen == 4
MaxPosts == 2
MaxClock == 3
TicksPerDay == 2
MaxElems == 2
MaxClassLen == 2

----------------------------------------------------------------------------
(* Strings *)

RawChars == {" ", "x", "O", "!", "&nbsp;"}
Whitespace == {" ", "nbsp"}
Marker == <<"O", "!">>
Suffix == <<" ">> \o Marker

SeqsUpTo(S, n) == UNION {[1..k -> S] : k \in 0..n}

RawTitles == SeqsUpTo(RawChars, MaxTitleLen)

unescape(s) == [i \in 1..Len(s) |-> IF s[i] = "&nbsp;" THEN "nbsp" ELSE s[i]]

StartsWith(s, p) == Len(s) >= Len(p) /\ SubSeq(s, 1, Len(p)) = p

Drop(s, n) == SubSeq(s, n + 1, Len(s))

RECURSIVE Contains(_, _)
Contains(s, sub) ==
    IF Len(s) < Len(sub) THEN FALSE
    ELSE IF StartsWith(s, sub) THEN TRUE
    ELSE Contains(Tail(s), sub)

RECURSIVE Remove(_, _)
Remove(s, old) ==
    IF Len(s) < Len(old) THEN s
    ELSE IF StartsWith(s, old) THEN Remove(Drop(s, Len(old)), old)
    ELSE <<Head(s)>> \o Remove(Tail(s), old)

RECURSIVE lstrip(_)
lstrip(s) == IF s # <<>> /\ Head(s) \in Whitespace THEN lstrip(Tail(s)) ELSE s

RECURSIVE rstrip(_)
rstrip(s) ==
    IF s # <<>> /\ s[Len(s)] \in Whitespace THEN rstrip(SubSeq(s, 1, Len(s) - 1)) ELSE s

strip(s) == rstrip(lstrip(s))

----------------------------------------------------------------------------
(* Dates.  A datetime is aware (it carries a UTC offset) or naive. *)

Times == 1..MaxClock
RawDates == [suffix : {"Z", "+00:00", ""}, t : Times]

fromisoformat(d) ==
    LET text == IF d.suffix = "Z" THEN "+00:00" ELSE d.suffix
    IN [aware |-> text # "", t |-> d.t]

utcfromtimestamp(created) == [aware |-> FALSE, t |-> created]

isoformat(d) == <<d.t, IF d.aware THEN "+00:00" ELSE "">>

----------------------------------------------------------------------------------------------------------------------------------------
(* _parse_post.  A JSON object is its set of keys and the values under     *)
(* them (a filler under an absent key).  A call yields the exception it    *)
(* raised ("" for none) and the value it returned.                         *)

NullTracker == [name |-> <<>>, date |-> [aware |-> FALSE, t |-> 0],
                categories |-> <<>>, status |-> FALSE]

Raise(e) == [exc |-> e, value |-> NullTracker]
Return(v) == [exc |-> "", value |-> v]

TermLists == {<<>>,
              <<[name |-> "Movies", taxonomy |-> "category"]>>,
              <<[name |-> "signup", taxonomy |-> "post_tag"],
                [name |-> "Music", taxonomy |-> "category"]>>}

TermListsLongest == CHOOSE l \in TermLists : \A m \in TermLists : Len(m) <= Len(l)

CategoryNames(terms) ==
    LET RECURSIVE pick(_)
        pick(i) == IF i > Len(terms) THEN <<>>
                   ELSE (IF terms[i].taxonomy = "category"
                         THEN <<terms[i].name>> ELSE <<>>) \o pick(i + 1)
    IN pick(1)

WordPressKeys == {"title", "date", "_embedded"}

\* A status that defaults to open, whatever the title.
StatusDefaultTrue(title) == TRUE

WordPressStatus(title) == Contains(title, Marker)

WordPressAPI_parse_post(p) ==
    IF ~ (WordPressKeys \subseteq p.keys) THEN Raise("KeyError")
    ELSE LET title == unescape(p.title)
             status == WordPressStatus(title)
             name == strip(Remove(title, Suffix))
         IN Return([name |-> name,
                    date |-> fromisoformat(p.date),
                    categories |-> CategoryNames(p.terms),
                    status |-> status])

RedditKeys == {"title", "id", "created_utc"}

RedditStatus(title) == Contains(title, Marker)

RedditAPI_parse_post(p, clock) ==
    LET title == unescape(IF "title" \in p.keys THEN p.title ELSE <<>>)
        status == RedditStatus(title)
        stripped == strip(Remove(title, Suffix))
        name == IF stripped # <<>> THEN stripped
                ELSE IF "id" \in p.keys THEN p.id ELSE <<"No Title">>
        created == IF "created_utc" \in p.keys THEN p.created_utc ELSE 0
        date == IF created # 0 THEN utcfromtimestamp(created) ELSE utcfromtimestamp(clock)
    IN Return([name |-> name, date |-> date, categories |-> <<>>, status |-> status])

----------------------------------------------------------------------------
(* The posts one _parse_post call may be given. *)

WordPressPosts ==
    [keys : {WordPressKeys}, title : RawTitles,
     date : {[suffix |-> "Z", t |-> 1], [suffix |-> "", t |-> 2]},
     terms : TermLists]
    \cup [keys : {WordPressKeys \ {k} : k \in WordPressKeys}, title : {<<"x">>},
          date : {[suffix |-> "Z", t |-> 1]}, terms : {<<>>}]

RedditPosts ==
    [keys : {RedditKeys, RedditKeys \ {"id"}}, title : RawTitles,
     id : {<<"t3", "x">>}, created_utc : {0, 1}]
    \cup [keys : {RedditKeys \ {"title"}, {}}, title : {<<>>},
          id : {<<"t3", "x">>}, created_utc : {0, 1}]

----------------------------------------------------------------------------
(* fetch_posts.  A response is the exception the request or the JSON       *)
(* decoding raised, or the decoded body.                                   *)

RequestErrors == {"ConnectError", "ReadTimeout", "HTTPStatusError", "JSONDecodeError"}

\* The classes `except Exception` catches: every exception named in this model.
ExceptionClasses == RequestErrors \cup {"KeyError", "TypeError", "OSError"}

\* fetch_posts: except Exception as e
Caught(e) == e \in ExceptionClasses

\* An except clause that lets file errors through.
RunCaughtNoFileErrors(e) == e \in ExceptionClasses \ {"OSError"}

\* run: except Exception as e
RunCaught(e) == e \in ExceptionClasses

RECURSIVE WordPressParseFrom(_, _, _)
WordPressParseFrom(posts, i, acc) ==
    IF i > Len(posts) THEN [exc |-> "", value |-> acc]
    ELSE LET r == WordPressAPI_parse_post(posts[i])
         IN IF r.exc # "" THEN [exc |-> r.exc, value |-> <<>>]
            ELSE WordPressParseFrom(posts, i + 1, Append(acc, r.value))

\* A comprehension that leaves out the posts _parse_post fails on.
WordPressParseAllSkipping(posts) ==
    LET RECURSIVE keep(_)
        keep(i) == IF i > Len(posts) THEN <<>>
                   ELSE LET r == WordPressAPI_parse_post(posts[i])
                        IN (IF r.exc = "" THEN <<r.value>> ELSE <<>>) \o keep(i + 1)
    IN [exc |-> "", value |-> keep(1)]

WordPressParseAll(posts) == WordPressParseFrom(posts, 1, <<>>)

WordPressAPI_fetch_posts(resp) ==
    LET body == IF resp.kind # "json" THEN [exc |-> resp.kind, value |-> <<>>]
                ELSE WordPressParseAll(resp.body)
    IN IF body.exc # "" /\ Caught(body.exc)
       THEN [exc |-> "", value |-> <<>>, printed |-> <<"WordPress API Error">>]
       ELSE [exc |-> body.exc, value |-> body.value, printed |-> <<>>]

RECURSIVE RedditParseFrom(_, _, _, _)
RedditParseFrom(children, clock, i, acc) ==
    IF i > Len(children) THEN [exc |-> "", value |-> acc]
    ELSE IF "data" \notin children[i].keys THEN [exc |-> "KeyError", value |-> <<>>]
    ELSE LET r == RedditAPI_parse_post(children[i].data, clock)
         IN IF r.exc # "" THEN [exc |-> r.exc, value |-> <<>>]
            ELSE RedditParseFrom(children, clock, i + 1, Append(acc, r.value))

RedditParseAll(children, clock) == RedditParseFrom(children, clock, 1, <<>>)

RedditAPI_fetch_posts(resp, clock) ==
    LET body == IF resp.kind # "json" THEN [exc |-> resp.kind, value |-> <<>>]
                ELSE RedditParseAll(resp.body, clock)
    IN IF body.exc # "" /\ Caught(body.exc)
       THEN [exc |-> "", value |-> <<>>, printed |-> <<"Reddit API Error">>]
       ELSE [exc |-> body.exc, value |-> body.value, printed |-> <<>>]

\* The posts the two sources return during a run.
WordPressOpenPost ==
    [keys |-> WordPressKeys, title |-> <<"x", " ", "O", "!">>,
     date |-> [suffix |-> "Z", t |-> 2],
     terms |-> <<[name |-> "Movies", taxonomy |-> "category"]>>]

WordPressPlainPost ==
    [keys |-> WordPressKeys, title |-> <<"x">>,
     date |-> [suffix |-> "", t |-> 1], terms |-> <<>>]

WordPressLatePost ==
    [keys |-> WordPressKeys, title |-> <<"O", "!", " ", "x">>,
     date |-> [suffix |-> "+00:00", t |-> 3], terms |-> <<>>]

WordPressMalformedPost ==
    [keys |-> {"title", "date"}, title |-> <<"x">>,
     date |-> [suffix |-> "Z", t |-> 1], terms |-> <<>>]

RunWordPressPosts ==
    {WordPressOpenPost, WordPressPlainPost, WordPressLatePost, WordPressMalformedPost}

RunRedditChildren ==
    {[keys |-> {"data"},
      data |-> [keys |-> RedditKeys, title |-> <<"x", " ", "O", "!">>,
                id |-> <<"t3", "x">>, created_utc |-> 1]],
     [keys |-> {"data"},
      data |-> [keys |-> RedditKeys, title |-> <<"x">>,
                id |-> <<"t3", "x">>, created_utc |-> 3]],
     [keys |-> {"data"},
      data |-> [keys |-> {"id"}, title |-> <<>>,
                id |-> <<"t3", "x">>, created_utc |-> 0]],
     [keys |-> {},
      data |-> [keys |-> {}, title |-> <<>>, id |-> <<>>, created_utc |-> 0]]}

Responses(posts) ==
    [kind : RequestErrors, body : {<<>>}]
    \cup [kind : {"json"}, body : SeqsUpTo(posts, MaxPosts)]

NoResponse == [kind |-> "", body |-> <<>>]

----------------------------------------------------------------------------
(* sorted(trackers, key=lambda x: x.date, reverse=True): a stable sort,    *)
(* most recent first.  Comparing an aware with a naive datetime raises     *)
(* TypeError, and a sort of a list that holds both compares such a pair.   *)

RECURSIVE InsertByDate(_, _)
InsertByDate(x, sorted) ==
    IF sorted = <<>> THEN <<x>>
    ELSE IF Head(sorted).date.t >= x.date.t
         THEN <<Head(sorted)>> \o InsertByDate(x, Tail(sorted))
         ELSE <<x>> \o sorted

RECURSIVE SortFrom(_, _, _)
SortFrom(list, i, acc) ==
    IF i > Len(list) THEN acc ELSE SortFrom(list, i + 1, InsertByDate(list[i], acc))

MixedDates(list) ==
    \E i, j \in 1..Len(list) : list[i].date.aware # list[j].date.aware

sorted_by_date(list) ==
    IF MixedDates(list) THEN [exc |-> "TypeError", value |-> <<>>]
    ELSE [exc |-> "", value |-> SortFrom(list, 1, <<>>)]

Day(t) == t \div TicksPerDay

TrackerStatus(status) == IF status THEN "Open" ELSE "Closed"

Row(t) == [name |-> t.name,
           categories |-> IF t.categories # <<>> THEN t.categories ELSE <<"-">>,
           date |-> Day(t.date.t),
           status |-> TrackerStatus(t.status)]

Rows(list) == [i \in 1..Len(list) |-> Row(list[i])]

category_stats(list) ==
    LET uses == {ik \in (1..Len(list)) \X (1..Len(TermListsLongest)) :
                    ik[2] <= Len(list[ik[1]].categories)}
        names == {list[ik[1]].categories[ik[2]] : ik \in uses}
    IN [c \in names |->
            Cardinality({ik \in uses : list[ik[1]].categories[ik[2]] = c})]

----------------------------------------------------------------------------
(* DataManager.  The data directory holds one snapshot per calendar day    *)
(* and latest.json.  A write fails when the file is opened (the file is    *)
(* left as it was) or while it is written (the file is left cut short).    *)

Days == 0..Day(MaxClock)

NoFile == [state |-> "absent", last_updated |-> <<0, "">>, trackers |-> <<>>]
CutFile == [state |-> "partial", last_updated |-> <<0, "">>, trackers |-> <<>>]

EmptyStorage == [dated |-> [d \in Days |-> NoFile], latest |-> NoFile]

serialize_tracker(t) ==
    [name |-> t.name, categories |-> t.categories, status |-> t.status,
     date |-> isoformat(t.date)]

\* A snapshot stamped with the day instead of the time of the call.
SaveDataDayStamp(list, clock) ==
    [state |-> "full",
     last_updated |-> <<Day(clock), "">>,
     trackers |-> [i \in 1..Len(list) |-> serialize_tracker(list[i])]]

SaveData(list, clock) ==
    [state |-> "full",
     last_updated |-> isoformat([aware |-> FALSE, t |-> clock]),
     trackers |-> [i \in 1..Len(list) |-> serialize_tracker(list[i])]]

WriteFailures == {"dated:open", "dated:write", "latest:open", "latest:write"}

\* save(trackers), the clock reading t1 at the first datetime.now() and t2 at
\* the second; fail names the write that fails ("" for none).
DataManager_save(store, list, t1, t2, fail) ==
    LET data == SaveData(list, t1)
        current_date == Day(t2)
        dated == IF fail = "dated:open" THEN store.dated[current_date]
                 ELSE IF fail = "dated:write" THEN CutFile
                 ELSE data
        datedFailed == fail \in {"dated:open", "dated:write"}
        latest == IF datedFailed \/ fail = "latest:open" THEN store.latest
                  ELSE IF fail = "latest:write" THEN CutFile
                  ELSE data
    IN [exc |-> IF fail = "" THEN "" ELSE "OSError",
        storage |-> [dated |-> [store.dated EXCEPT ![current_date] = dated],
                     latest |-> latest],
        opened |-> IF fail = "dated:open" THEN <<>>
                   ELSE IF fail \in {"dated:write", "latest:open"}
                        THEN <<"trackers_<date>.json">>
                   ELSE <<"trackers_<date>.json", "latest.json">>]

----------------------------------------------------------------------------
(* Idle values of the parts a specification does not exercise. *)

ParseIdle == /\ post = <<>>
             /\ source = ""
             /\ tracker = <<>>

RunIdle == /\ pc = "idle"
           /\ wpResp = NoResponse
           /\ redditResp = NoResponse
           /\ wordpress_trackers = <<>>
           /\ reddit_trackers = <<>>
           /\ trackers = <<>>
           /\ console = <<>>
           /\ tableRows = <<>>
           /\ reportRows = <<>>
           /\ invoked = {}
           /\ completed = {}
           /\ pending = ""
           /\ escaped = ""
           /\ closed = {}
           /\ written = <<>>

NoSave == [called |-> FALSE, exc |-> "", date |-> 0, clock |-> 0, list |-> <<>>,
           before |-> NoFile]

SaveIdle == lastSave = NoSave

ScraperIdle == /\ spc = "idle"
               /\ attempts = 0
               /\ sleeps = 0
               /\ got = ""
               /\ html = <<>>
               /\ post_containers = <<>>
               /\ strategy = 0
               /\ tried = 0

----------------------------------------------------------------------------
(* One _parse_post call of either adapter. *)

InitParse ==
    /\ \/ source = "wordpress" /\ post \in WordPressPosts
       \/ source = "reddit" /\ post \in RedditPosts
    /\ tracker = <<>>
    /\ now = MaxClock
    /\ storage = EmptyStorage
    /\ RunIdle /\ SaveIdle /\ ScraperIdle

ParseWordPress ==
    /\ source = "wordpress"
    /\ tracker = <<>>
    /\ tracker' = <<WordPressAPI_parse_post(post)>>
    /\ UNCHANGED <<post, source, runVars, diskVars, saveVars, scraperVars>>

ParseReddit ==
    /\ source = "reddit"
    /\ tracker = <<>>
    /\ tracker' = <<RedditAPI_parse_post(post, now)>>
    /\ UNCHANGED <<post, source, runVars, diskVars, saveVars, scraperVars>>

NextParse == ParseWordPress \/ ParseReddit

SpecParse == InitParse /\ [][NextParse]_vars

----------------------------------------------------------------------------
(* TrackerMonitor.run: one action per awaited call or pipeline stage.      *)
(* pending is the exception in flight inside the try block, escaped the    *)
(* exception run() ended with.                                             *)

InitRun ==
    /\ pc = "fetch_wp"
    /\ wpResp = NoResponse
    /\ redditResp = NoResponse
    /\ wordpress_trackers = <<>>
    /\ reddit_trackers = <<>>
    /\ trackers = <<>>
    /\ console = <<>>
    /\ tableRows = <<>>
    /\ reportRows = <<>>
    /\ invoked = {}
    /\ completed = {}
    /\ pending = ""
    /\ escaped = ""
    /\ closed = {}
    /\ written = <<>>
    /\ now = MaxClock
    /\ storage = EmptyStorage
    /\ ParseIdle /\ SaveIdle /\ ScraperIdle

\* A stage of the try block ends: with exception e the control goes to the
\* except clause, otherwise to the stage next.
StageEnds(stage, e, next) ==
    /\ invoked' = invoked \cup {stage}
    /\ completed' = IF e = "" THEN completed \cup {stage} ELSE completed
    /\ pending' = e
    /\ pc' = IF e = "" THEN next ELSE "except"

RunFetchWordPress ==
    /\ pc = "fetch_wp"
    /\ \E resp \in Responses(RunWordPressPosts) :
         LET r == WordPressAPI_fetch_posts(resp)
         IN /\ wpResp' = resp
            /\ wordpress_trackers' = r.value
            /\ console' = console \o r.printed
            /\ StageEnds("wp.fetch_posts", r.exc, "fetch_reddit")
    /\ UNCHANGED <<redditResp, reddit_trackers, trackers, tableRows, reportRows,
                   escaped, closed, written, parseVars, diskVars, saveVars, scraperVars>>

RunFetchReddit ==
    /\ pc = "fetch_reddit"
    /\ \E resp \in Responses(RunRedditChildren) :
         LET r == RedditAPI_fetch_posts(resp, now)
         IN /\ redditResp' = resp
            /\ reddit_trackers' = r.value
            /\ console' = console \o r.printed
            /\ StageEnds("reddit.fetch_posts", r.exc, "merge")
    /\ UNCHANGED <<wpResp, wordpress_trackers, trackers, tableRows, reportRows,
                   escaped, closed, written, parseVars, diskVars, saveVars, scraperVars>>

RunMerge ==
    /\ pc = "merge"
    /\ trackers' = wordpress_trackers \o reddit_trackers
    /\ IF trackers' = <<>>
       THEN /\ console' = Append(console, "No trackers found")
            /\ pc' = "close_wp"
       ELSE /\ console' = console
            /\ pc' = "save"
    /\ UNCHANGED <<wpResp, redditResp, wordpress_trackers, reddit_trackers, tableRows,
                   reportRows, invoked, completed, pending, escaped, closed, written,
                   parseVars, diskVars, saveVars, scraperVars>>

RunSave ==
    /\ pc = "save"
    /\ \E fail \in WriteFailures \cup {""} :
         LET r == DataManager_save(storage, trackers, now, now, fail)
         IN /\ storage' = r.storage
            /\ written' = written \o r.opened
            /\ StageEnds("save", r.exc, "visualize")
    /\ UNCHANGED <<wpResp, redditResp, wordpress_trackers, reddit_trackers, trackers,
                   console, tableRows, reportRows, escaped, closed, now,
                   parseVars, saveVars, scraperVars>>

\* create_visualizations: fail names the savefig call that fails ("" for none).
\* run calls it with a non-empty list only, so its "No data to visualize" return
\* is never taken.
RunVisualize ==
    /\ pc = "visualize"
    /\ IF DOMAIN category_stats(trackers) # {}
       THEN \E fail \in {"", "bar", "pie"} :
              /\ written' = written \o
                    (IF fail = "bar" THEN <<>>
                     ELSE IF fail = "pie" THEN <<"category_distribution.png">>
                     ELSE <<"category_distribution.png", "category_percentage.png">>)
              /\ console' = console
              /\ StageEnds("create_visualizations",
                           IF fail = "" THEN "" ELSE "OSError", "display")
       ELSE /\ written' = written
            /\ console' = Append(console, "No category data available for visualization.")
            /\ StageEnds("create_visualizations", "", "display")
    /\ UNCHANGED <<wpResp, redditResp, wordpress_trackers, reddit_trackers, trackers,
                   tableRows, reportRows, escaped, closed,
                   parseVars, diskVars, saveVars, scraperVars>>

RunDisplay ==
    /\ pc = "display"
    /\ LET s == sorted_by_date(trackers)
       IN /\ tableRows' = IF s.exc = "" THEN Rows(s.value) ELSE tableRows
          /\ console' = IF s.exc = "" THEN Append(console, "table") ELSE console
          /\ StageEnds("_display_results", s.exc, "report")
    /\ UNCHANGED <<wpResp, redditResp, wordpress_trackers, reddit_trackers, trackers,
                   reportRows, escaped, closed, written,
                   parseVars, diskVars, saveVars, scraperVars>>

\* _create_markdown_report: fail is how the write of README.md fails ("" for not).
RunReport ==
    /\ pc = "report"
    /\ LET s == sorted_by_date(trackers)
       IN IF s.exc # ""
          THEN /\ UNCHANGED <<reportRows, written>>
               /\ StageEnds("_create_markdown_report", s.exc, "close_wp")
          ELSE \E fail \in {"", "open", "write"} :
                 /\ reportRows' = IF fail = "" THEN Rows(s.value) ELSE reportRows
                 /\ written' = IF fail = "open" THEN written
                               ELSE Append(written, "README.md")
                 /\ StageEnds("_create_markdown_report",
                              IF fail = "" THEN "" ELSE "OSError", "close_wp")
    /\ UNCHANGED <<wpResp, redditResp, wordpress_trackers, reddit_trackers, trackers,
                   console, tableRows, escaped, closed,
                   parseVars, diskVars, saveVars, scraperVars>>

\* except Exception as e: print(...)
RunExcept ==
    /\ pc = "except"
    /\ IF RunCaught(pending)
       THEN /\ console' = Append(console, "Error in main run")
            /\ pending' = ""
       ELSE UNCHANGED <<console, pending>>
    /\ pc' = "close_wp"
    /\ UNCHANGED <<wpResp, redditResp, wordpress_trackers, reddit_trackers, trackers,
                   tableRows, reportRows, invoked, completed, escaped, closed, written,
                   parseVars, diskVars, saveVars, scraperVars>>

\* finally: await self._wp_api.close().  aclose() ends normally or raises.
RunCloseWordPress ==
    /\ pc = "close_wp"
    /\ invoked' = invoked \cup {"wp.close"}
    /\ \E ok \in BOOLEAN :
         IF ok
         THEN /\ closed' = closed \cup {"wordpress"}
              /\ completed' = completed \cup {"wp.close"}
              /\ pc' = "close_reddit"
              /\ UNCHANGED escaped
         ELSE /\ escaped' = "CloseError"
              /\ pc' = "done"
              /\ UNCHANGED <<closed, completed>>
    /\ UNCHANGED <<wpResp, redditResp, wordpress_trackers, reddit_trackers, trackers,
                   console, tableRows, reportRows, pending, written,
                   parseVars, diskVars, saveVars, scraperVars>>

\* finally: await self._reddit_api.close(), then run() ends.
RunCloseReddit ==
    /\ pc = "close_reddit"
    /\ invoked' = invoked \cup {"reddit.close"}
    /\ \E ok \in BOOLEAN :
         IF ok
         THEN /\ closed' = closed \cup {"reddit"}
              /\ completed' = completed \cup {"reddit.close"}
              /\ escaped' = pending
         ELSE /\ escaped' = "CloseError"
              /\ UNCHANGED <<closed, completed>>
    /\ pc' = "done"
    /\ UNCHANGED <<wpResp, redditResp, wordpress_trackers, reddit_trackers, trackers,
                   console, tableRows, reportRows, pending, written,
                   parseVars, diskVars, saveVars, scraperVars>>

NextRun ==
    \/ RunFetchWordPress \/ RunFetchReddit \/ RunMerge \/ RunSave \/ RunVisualize
    \/ RunDisplay \/ RunReport \/ RunExcept \/ RunCloseWordPress \/ RunCloseReddit

SpecRun == InitRun /\ [][NextRun]_vars

----------------------------------------------------------------------------
(* DataManager.save called again and again while the clock runs.  lastSave *)
(* records the last call: its arguments, the clock at its first            *)
(* datetime.now(), the day of its dated file and what that file held       *)
(* before the call.                                                        *)

SaveFullList == WordPressParseAll(<<WordPressOpenPost, WordPressLatePost>>).value

\* run never saves an empty list.
SaveLists == {SubSeq(SaveFullList, 1, k) : k \in 1..Len(SaveFullList)}

InitSave ==
    /\ now = 1
    /\ storage = EmptyStorage
    /\ lastSave = NoSave
    /\ ParseIdle /\ RunIdle /\ ScraperIdle

Tick ==
    /\ now < MaxClock
    /\ now' = now + 1
    /\ UNCHANGED <<storage, lastSave, parseVars, runVars, scraperVars>>

Save ==
    \E list \in SaveLists, t2 \in {now, now + 1}, fail \in WriteFailures \cup {""} :
        /\ t2 <= MaxClock
        /\ LET r == DataManager_save(storage, list, now, t2, fail)
           IN /\ storage' = r.storage
              /\ lastSave' = [called |-> TRUE, exc |-> r.exc, date |-> Day(t2),
                              clock |-> now, list |-> list,
                              before |-> storage.dated[Day(t2)]]
        /\ now' = t2
        /\ UNCHANGED <<parseVars, runVars, scraperVars>>

NextSave == Tick \/ Save

SpecSave == InitSave /\ [][NextSave]_vars

----------------------------------------------------------------------------
(* TrackerScraper.  A page is the sequence of its elements in document     *)
(* order; an element has a tag and a class attribute, the sequence of its  *)
(* class names (empty: no attribute).  A class name is a sequence of       *)
(* syllables, "post-list" being "post" "-list".  The elements drawn carry  *)
(* at most one class name: find_all matches an element when any one of its *)
(* names matches.                                                          *)

Syllables == {"post", "POST", "-list"}

ClassNames == SeqsUpTo(Syllables, MaxClassLen) \ {<<>>}

Elements ==
    {[tag |-> "article", class |-> <<>>]}
    \cup [tag : {"div"}, class : {<<>>} \cup {<<n>> : n \in ClassNames}]

Pages == SeqsUpTo(Elements, MaxElems)

lower(name) == [i \in 1..Len(name) |-> IF name[i] = "POST" THEN "post" ELSE name[i]]

\* A test for the class name "post" itself.
PostIsClass(name) == lower(name) = <<"post">>

\* lambda x: x and ('post' in x.lower())
PostInClass(name) == Contains(lower(name), <<"post">>)

IsArticle(e) == e.tag = "article"

IsPostDiv(e) == e.tag = "div" /\ \E i \in 1..Len(e.class) : PostInClass(e.class[i])

IsPostListName(name) == name = <<"post", "-list">>

IsPostListDiv(e) == e.tag = "div" /\ \E i \in 1..Len(e.class) : IsPostListName(e.class[i])

\* find_all("article") or find_all("div", class_=lambda ...) or
\* find_all("div", class_="post-list"): the first list that is not empty, else
\* the last.  tried counts the find_all calls made.
SelectContainers(page) ==
    LET first == SelectSeq(page, IsArticle)
        second == SelectSeq(page, IsPostDiv)
        third == SelectSeq(page, IsPostListDiv)
    IN IF first # <<>> THEN [containers |-> first, strategy |-> 1, tried |-> 1]
       ELSE IF second # <<>> THEN [containers |-> second, strategy |-> 2, tried |-> 2]
       ELSE [containers |-> third, strategy |-> IF third # <<>> THEN 3 ELSE 0,
             tried |-> 3]

StatusCodes == {200, 204, 404, 503}

MaxAttempts == 3

InitScraper ==
    /\ spc = "get"
    /\ attempts = 0
    /\ sleeps = 0
    /\ got = ""
    /\ html = <<>>
    /\ post_containers = <<>>
    /\ strategy = 0
    /\ tried = 0
    /\ now = 1
    /\ storage = EmptyStorage
    /\ ParseIdle /\ RunIdle /\ SaveIdle

\* One pass of the loop body up to the status test; an exception of
\* session.get leaves the loop for the except clause, which returns "".
ScraperGet ==
    /\ spc = "get"
    /\ attempts' = attempts + 1
    /\ \/ /\ got' = "exception"
          /\ html' = <<>>
          /\ spc' = "returned"
       \/ \E status \in StatusCodes, text \in Pages :
            IF status = 200
            THEN /\ got' = "200"
                 /\ html' = text
                 /\ spc' = "returned"
            ELSE /\ got' = "not200"
                 /\ html' = <<>>
                 /\ spc' = "sleep"
    /\ UNCHANGED <<sleeps, post_containers, strategy, tried,
                   parseVars, runVars, diskVars, saveVars>>

\* time.sleep(2), then the next pass, or return "" after the last.
ScraperSleep ==
    /\ spc = "sleep"
    /\ sleeps' = sleeps + 1
    /\ spc' = IF attempts < MaxAttempts THEN "get" ELSE "returned"
    /\ UNCHANGED <<attempts, got, html, post_containers, strategy, tried,
                   parseVars, runVars, diskVars, saveVars>>

\* veri_ayikla, from the return of sayfa_icerik_al to the choice of containers.
ScraperSelect ==
    /\ spc = "returned"
    /\ IF html = <<>>
       THEN UNCHANGED <<post_containers, strategy, tried>>
       ELSE LET r == SelectContainers(html)
            IN /\ post_containers' = r.containers
               /\ strategy' = r.strategy
               /\ tried' = r.tried
    /\ spc' = "selected"
    /\ UNCHANGED <<attempts, sleeps, got, html, parseVars, runVars, diskVars, saveVars>>

NextScraper == ScraperGet \/ ScraperSleep \/ ScraperSelect

SpecScraper == InitScraper /\ [][NextScraper]_vars

----------------------------------------------------------------------------
(* Properties of _parse_post, under SpecParse. *)

Parsed == tracker # <<>> /\ tracker[1].exc = ""

\* The title the status is derived from, entities decoded.
DecodedTitle == unescape(IF "title" \in post.keys THEN post.title ELSE <<>>)

HasMarker(t) == \E i \in 1..Len(t) : i < Len(t) /\ t[i] = "O" /\ t[i + 1] = "!"

\* C5 as claimed: every record either adapter produces has status true, whether
\* or not its title contains the marker phrase.
C5_StatusAlwaysTrue == Parsed => tracker[1].value.status = TRUE

\* C5 as amended: the status of a record is true exactly when its title contains
\* the marker phrase; a title without it yields status false (a Closed record).
C5_StatusIffMarker == Parsed => (tracker[1].value.status <=> HasMarker(DecodedTitle))

C5_Witness ==
    /\ Parsed
    /\ ~ HasMarker(DecodedTitle)
    /\ DecodedTitle # <<>>
    /\ tracker[1].value.status = FALSE
    /\ TrackerStatus(tracker[1].value.status) = "Closed"

\* C9: every record either adapter produces has a non-empty name.
C9_NameNonEmpty == Parsed => tracker[1].value.name # <<>>

----------------------------------------------------------------------------
(* Properties of TrackerMonitor.run, under SpecRun. *)

PipelineStages ==
    {"save", "create_visualizations", "_display_results", "_create_markdown_report"}

Failed(stage) == stage \in invoked /\ stage \notin completed

WordPressParsedAt(i) == WordPressAPI_parse_post(wpResp.body[i])

RedditParsedAt(i) ==
    IF "data" \in redditResp.body[i].keys
    THEN RedditAPI_parse_post(redditResp.body[i].data, now)
    ELSE Raise("KeyError")

\* C1: fetch_posts of either adapter returns normally whatever the request did,
\* and its result is empty or holds one record per returned post, in source
\* order; it is the full list when no post is malformed and never a part of it.
C1_FetchAllOrNothing ==
    /\ "wp.fetch_posts" \in invoked =>
         /\ "wp.fetch_posts" \in completed
         /\ IF wpResp.kind = "json"
               /\ \A i \in 1..Len(wpResp.body) : WordPressParsedAt(i).exc = ""
            THEN wordpress_trackers =
                    [i \in 1..Len(wpResp.body) |-> WordPressParsedAt(i).value]
            ELSE wordpress_trackers = <<>>
    /\ "reddit.fetch_posts" \in invoked =>
         /\ "reddit.fetch_posts" \in completed
         /\ IF redditResp.kind = "json"
               /\ \A i \in 1..Len(redditResp.body) : RedditParsedAt(i).exc = ""
            THEN reddit_trackers =
                    [i \in 1..Len(redditResp.body) |-> RedditParsedAt(i).value]
            ELSE reddit_trackers = <<>>

C1_Witness ==
    /\ "reddit.fetch_posts" \in completed
    /\ wpResp.kind = "json"
    /\ Len(wpResp.body) = 2
    /\ WordPressParsedAt(1).exc = ""
    /\ WordPressParsedAt(2).exc = "KeyError"
    /\ wordpress_trackers = <<>>
    /\ Len(reddit_trackers) = 2

\* C2: when both adapters return an empty list the run prints the notice, runs
\* no pipeline stage, writes no file and finishes without raising.
C2_EmptyRunIsQuiet ==
    (pc = "done" /\ wordpress_trackers = <<>> /\ reddit_trackers = <<>>) =>
        /\ \E i \in 1..Len(console) : console[i] = "No trackers found"
        /\ invoked \cap PipelineStages = {}
        /\ written = <<>>
        /\ storage = EmptyStorage
        /\ escaped = ""

\* C4: when run finishes both clients have been closed, on every path, and no
\* client is closed while a fetch is still to be made.
C4_BothClientsClosed ==
    /\ pc = "done" => closed = {"wordpress", "reddit"}
    /\ closed # {} => pc \in {"close_reddit", "done"}

WriteFailed == Failed("save") \/ Failed("_create_markdown_report")

AfterTry == pc \in {"close_wp", "close_reddit", "done"}

\* C7 as claimed: a failed write of a snapshot or of README.md is not caught: the
\* error is still in flight when the try statement is left, and run ends with it.
C7_WriteFailurePropagates ==
    /\ (AfterTry /\ pc # "done" /\ WriteFailed) => pending = "OSError"
    /\ (pc = "done" /\ WriteFailed) => escaped = "OSError"

\* C7 as amended: a failed write is caught by run's own except clause: the error
\* is printed, no later stage runs, the error does not leave run, and the finally
\* block is entered.  Fetch failures never abort the run.
C7_WriteFailureCaught ==
    /\ (AfterTry /\ WriteFailed) =>
         /\ \E i \in 1..Len(console) : console[i] = "Error in main run"
         /\ pending = ""
         /\ escaped # "OSError"
         /\ Failed("save") =>
              invoked \cap {"create_visualizations", "_display_results",
                            "_create_markdown_report"} = {}
    /\ \A f \in {"wp.fetch_posts", "reddit.fetch_posts"} : ~ Failed(f)

C7_Witness ==
    /\ pc = "done"
    /\ Failed("save")
    /\ storage.dated[Day(now)].state = "full"
    /\ storage.latest.state = "partial"
    /\ escaped = ""
    /\ closed = {"wordpress", "reddit"}

Descending(rows) == \A i, j \in 1..Len(rows) : i < j => rows[i].date >= rows[j].date

\* C8: for every non-empty merged list _display_results and
\* _create_markdown_report complete and emit one row per record, most recent
\* first, in the same order.
C8_RowsSortedByDate ==
    /\ "_display_results" \in invoked =>
         /\ "_display_results" \in completed
         /\ Len(tableRows) = Len(trackers)
         /\ Descending(tableRows)
    /\ "_create_markdown_report" \in completed => reportRows = tableRows

----------------------------------------------------------------------------
(* Properties of DataManager.save, under SpecSave. *)

Serialized(list) ==
    [i \in 1..Len(list) |->
        [name |-> list[i].name, categories |-> list[i].categories,
         status |-> list[i].status,
         date |-> <<list[i].date.t, IF list[i].date.aware THEN "+00:00" ELSE "">>]]

SavedAgain ==
    /\ lastSave.called
    /\ lastSave.exc = ""
    /\ lastSave.before.state = "full"
    /\ lastSave.before.trackers = Serialized(lastSave.list)

\* C6 as claimed: a second save on the same day with the same list leaves the
\* dated file with the content the first call wrote, and latest.json holds what
\* the most recent call wrote.
C6_SaveIdempotent ==
    /\ SavedAgain => storage.dated[lastSave.date] = lastSave.before
    /\ (lastSave.called /\ lastSave.exc = "") =>
          storage.latest = storage.dated[lastSave.date]

\* C6 as amended: a save that completes leaves the dated file of its day and
\* latest.json with the same content, the serialized list under the call's own
\* last_updated timestamp; saving the same list again on the same day keeps the
\* trackers of the dated file and replaces its last_updated.
C6_SaveOverwrites ==
    (lastSave.called /\ lastSave.exc = "") =>
        /\ storage.latest = storage.dated[lastSave.date]
        /\ storage.latest.state = "full"
        /\ storage.latest.trackers = Serialized(lastSave.list)
        /\ storage.latest.last_updated = <<lastSave.clock, "">>

C6_Witness ==
    /\ SavedAgain
    /\ lastSave.list # <<>>
    /\ storage.dated[lastSave.date].trackers = lastSave.before.trackers
    /\ storage.dated[lastSave.date].last_updated # lastSave.before.last_updated

----------------------------------------------------------------------------
(* Properties of TrackerScraper, under SpecScraper. *)

Returned == spc \in {"returned", "selected"}

\* C3: sayfa_icerik_al makes at most 3 attempts; every failed attempt, by status
\* or by an exception of the GET, is followed by a sleep and by the next attempt
\* while fewer than 3 were made; the empty result is returned only after 3
\* failed attempts.
C3_RetriesEveryFailure ==
    /\ attempts <= MaxAttempts
    /\ (Returned /\ got # "200") =>
          /\ attempts = MaxAttempts
          /\ sleeps >= MaxAttempts - 1

Articles(page) == SelectSeq(page, LAMBDA e : e.tag = "article")

HasPost(name) == \E i \in 1..Len(name) : name[i] \in {"post", "POST"}

PostDivs(page) ==
    SelectSeq(page, LAMBDA e : e.tag = "div" /\ \E i \in 1..Len(e.class) : HasPost(e.class[i]))

PostListDivs(page) ==
    SelectSeq(page, LAMBDA e : e.tag = "div"
                               /\ \E i \in 1..Len(e.class) : e.class[i] = <<"post", "-list">>)

Selected == spc = "selected" /\ html # <<>>

FirstMatch(page) ==
    IF Articles(page) # <<>> THEN Articles(page)
    ELSE IF PostDivs(page) # <<>> THEN PostDivs(page)
    ELSE PostListDivs(page)

\* Some page on which strategies 1 and 2 match nothing and strategy 3 matches.
FallbackCanSupply ==
    \E p \in Pages : Articles(p) = <<>> /\ PostDivs(p) = <<>> /\ PostListDivs(p) # <<>>

\* C10 as claimed: the containers are those of the first of the three strategies
\* that matches, and on a page where strategies 1 and 2 match nothing strategy 3
\* can supply them.
C10_FallbackSupplies ==
    Selected =>
        /\ post_containers = FirstMatch(html)
        /\ tried = 3 => FallbackCanSupply

\* C10 as amended: the containers are those of the first of strategies 1 and 2
\* that matches, each tried only when the earlier ones matched nothing; when
\* neither matches strategy 3 is tried and matches nothing, since every div of
\* class "post-list" already matches strategy 2: the containers are then empty.
C10_FirstOfTwoStrategies ==
    Selected =>
        /\ post_containers = FirstMatch(html)
        /\ tried = IF Articles(html) # <<>> THEN 1
                   ELSE IF PostDivs(html) # <<>> THEN 2 ELSE 3
        /\ strategy # 3
        /\ tried = 3 => post_containers = <<>>

C10_Witness ==
    /\ Selected
    /\ \E i \in 1..Len(html) : html[i].tag = "div" /\ html[i].class # <<>>
    /\ tried = 3
    /\ post_containers = <<>>

====
